---- MODULE Spec2Model ----
(***************************************************************************)
(* Authentication / session-issuance flow of the library API:              *)
(* registration, e-mail verification, login, token refresh and logout.     *)
(*                                                                         *)
(* Time is counted in half hours.  Strings the code builds or inspects     *)
(* (password digests, JSON web tokens, the verification link) are modelled *)
(* as sequences of their parts; the empty sequence is the empty / missing  *)
(* string (null, undefined, '').                                           *)
(***************************************************************************)
EXTENDS Integers, Sequences, FiniteSets, TLC

VARIABLES
    env,          \* process.env: JWT_SECRET and NODE_ENV
    now,          \* wall clock, in half hours
    ticks,        \* number of clock advances so far (bounds the clock)
    users,        \* the users collection, in creation order (id = position)
    outbox,       \* mails the mailer accepted while handling the request
    inbox,        \* the client's mailbox: the last mail delivered
    cookies,      \* the client's cookie jar, as the login handler set it
    request,      \* the request handled by the last step
    response,     \* what the last handler returned or threw
    decodedToken  \* payload logged by the last successful jwt.verify

vars == <<env, now, ticks, users, outbox, inbox, cookies, request, response,
          decodedToken>>

(***************************************************************************)
(* Bounds and input domains                                                *)
(***************************************************************************)
MaxTicks == 1

Emails    == {"a@x.com", "b@x.com"}
Usernames == {"a", "b"}
GoodPassword  == <<"P", "@", "s", "s", "1">>
WrongPassword == <<"w", "r", "o", "n", "g">>
Passwords         == {GoodPassword, WrongPassword}
RegisterPasswords == {GoodPassword}
Salts     == {"salt1"}
TickSteps == {2, 336}
WithinHourSteps == {1}

Null == <<>>
NoId == 0

Unset            == ""
ConfiguredSecret == "configured-secret"
ForgedSecret     == "attacker-secret"
Environments ==
    { [JWT_SECRET |-> ConfiguredSecret, NODE_ENV |-> "production"],
      [JWT_SECRET |-> Unset,            NODE_ENV |-> "development"] }

(***************************************************************************)
(* Exceptions and results                                                  *)
(***************************************************************************)
NoError == [type |-> "", message |-> ""]
BadRequestException(m)          == [type |-> "BadRequestException", message |-> m]
InternalServerErrorException(m) == [type |-> "InternalServerErrorException", message |-> m]
Error(m)                        == [type |-> "Error", message |-> m]
UnauthorizedException(m)        == [type |-> "UnauthorizedException", message |-> m]

Ok(v, s)  == [err |-> NoError, val |-> v, store |-> s]
Throw(e, s) == [err |-> e, val |-> Null, store |-> s]

\* The failure kinds of the error taxonomy, as the exceptions that carry them.
DuplicateEmail     == BadRequestException("The email address is already associated with an account.")
CreateFailed       == BadRequestException("Error creating user")
UserNotFound       == BadRequestException("User not found")
InvalidToken       == BadRequestException("Invalid token")
TokenExpired       == BadRequestException("Token has expired")
DeliveryError      == InternalServerErrorException("Error sending email")
ConfigurationError == InternalServerErrorException("JWT secret is not set")
TokenRequired      == Error("Token is required")
UserIdRequired     == Error("User id is required")
InvalidCredentials == UnauthorizedException("Invalid credentials")

IsInvalidToken(e) == e \in {InvalidToken, TokenExpired}

(***************************************************************************)
(* Password hasher (argon2)                                                *)
(***************************************************************************)
HashPrefix == <<"$argon2id$">>

Argon2Hash(plain, salt) == HashPrefix \o <<salt>> \o plain

Argon2Verify(digest, plain) ==
    /\ Len(digest) >= 2
    /\ SubSeq(digest, 1, 1) = HashPrefix
    /\ SubSeq(digest, 3, Len(digest)) = plain

(***************************************************************************)
(* Token issuer (jsonwebtoken)                                             *)
(***************************************************************************)
EmailTTL   == 2
AccessTTL  == 48
RefreshTTL == 336

Malformed == <<"not-a-jwt">>

\* jwt.sign(payload, key, { expiresIn }): the payload gains iat and exp.
JwtSign(claims, key, ttl, t) ==
    <<"JWT", claims @@ [iat |-> t, exp |-> t + ttl], key>>

\* Mutant of JwtVerify: a token is still accepted at the instant it expires.
JwtVerifyLate(token, key, t) ==
    IF Len(token) # 3 \/ token[1] # "JWT"
    THEN [ok |-> FALSE, name |-> "JsonWebTokenError", payload |-> Null]
    ELSE IF token[3] # key
    THEN [ok |-> FALSE, name |-> "JsonWebTokenError", payload |-> Null]
    ELSE IF t > token[2].exp
    THEN [ok |-> FALSE, name |-> "TokenExpiredError", payload |-> Null]
    ELSE [ok |-> TRUE, name |-> "", payload |-> token[2]]

\* Mutant of JwtVerify: expiry is not checked.
JwtVerifyIgnoreExpiration(token, key, t) ==
    IF Len(token) # 3 \/ token[1] # "JWT"
    THEN [ok |-> FALSE, name |-> "JsonWebTokenError", payload |-> Null]
    ELSE IF token[3] # key
    THEN [ok |-> FALSE, name |-> "JsonWebTokenError", payload |-> Null]
    ELSE [ok |-> TRUE, name |-> "", payload |-> token[2]]

\* jwt.verify(token, key): structure, then signature, then expiry.
JwtVerify(token, key, t) ==
    IF Len(token) # 3 \/ token[1] # "JWT"
    THEN [ok |-> FALSE, name |-> "JsonWebTokenError", payload |-> Null]
    ELSE IF token[3] # key
    THEN [ok |-> FALSE, name |-> "JsonWebTokenError", payload |-> Null]
    ELSE IF t >= token[2].exp
    THEN [ok |-> FALSE, name |-> "TokenExpiredError", payload |-> Null]
    ELSE [ok |-> TRUE, name |-> "", payload |-> token[2]]

Claim(payload, k) == IF k \in DOMAIN payload THEN payload[k] ELSE Null

\* UsersService.secret
secret(e) ==
    IF e.JWT_SECRET = Unset
    THEN IF e.NODE_ENV # "production"
         THEN [err |-> NoError, val |-> "default-secret"]
         ELSE [err |-> ConfigurationError, val |-> Unset]
    ELSE [err |-> NoError, val |-> e.JWT_SECRET]

(***************************************************************************)
(* Credential store (Prisma, model User)                                   *)
(***************************************************************************)
IndexByEmail(store, e) ==
    IF \E i \in DOMAIN store : store[i].email = e
    THEN CHOOSE i \in DOMAIN store : store[i].email = e
    ELSE NoId

IndexById(store, id) == IF id \in DOMAIN store THEN id ELSE NoId

\* Mutant of PrismaUserCreate: the store enforces no uniqueness constraint.
PrismaUserCreateUnconstrained(store, data, t) ==
    LET user == [ id              |-> Len(store) + 1,
                  email           |-> data.email,
                  username        |-> data.username,
                  role            |-> "user",
                  password        |-> data.password,
                  emailIsVerified |-> FALSE,
                  refreshToken    |-> Null,
                  updatedAt       |-> t ]
    IN  Ok(user, Append(store, user))

\* prisma.user.create: defaults from the schema, @unique on email and username.
\* address, phoneNumber and createdAt are set here and never read or written
\* again by the handlers below; they are left out of the record.
PrismaUserCreate(store, data, t) ==
    IF \E i \in DOMAIN store :
          store[i].email = data.email \/ store[i].username = data.username
    THEN Throw(Error("Unique constraint failed"), store)
    ELSE LET user == [ id              |-> Len(store) + 1,
                       email           |-> data.email,
                       username        |-> data.username,
                       role            |-> "user",
                       password        |-> data.password,
                       emailIsVerified |-> FALSE,
                       refreshToken    |-> Null,
                       updatedAt       |-> t ]
         IN  Ok(user, Append(store, user))

\* Mutant of PrismaUserUpdate: the where clause is dropped (updateMany).
PrismaUserUpdateMany(store, i, data, t) ==
    IF i = NoId
    THEN Throw(Error("Record to update not found"), store)
    ELSE LET upd(user) == [f \in DOMAIN user |->
                             IF f = "updatedAt" THEN t
                             ELSE IF f \in DOMAIN data THEN data[f]
                             ELSE user[f]]
         IN  Ok(upd(store[i]), [k \in DOMAIN store |-> upd(store[k])])

\* prisma.user.update({ where, data }): i is the record the where clause
\* selects (NoId when none); updatedAt is refreshed on every update.
PrismaUserUpdate(store, i, data, t) ==
    IF i = NoId
    THEN Throw(Error("Record to update not found"), store)
    ELSE LET user == [f \in DOMAIN store[i] |->
                        IF f = "updatedAt" THEN t
                        ELSE IF f \in DOMAIN data THEN data[f]
                        ELSE store[i][f]]
         IN  Ok(user, [store EXCEPT ![i] = user])

WithoutPassword(user) == [f \in DOMAIN user \ {"password"} |-> user[f]]

(***************************************************************************)
(* UsersService                                                            *)
(***************************************************************************)
\* Mutant of UsersServiceCreate: the findUnique check is skipped.
UsersServiceCreateUnchecked(store, data, salt, t) ==
    LET hashedPassword == Argon2Hash(data.password, salt)
        created == PrismaUserCreate(store,
                       [ email    |-> data.email,
                         username |-> data.username,
                         password |-> hashedPassword ], t)
    IN  IF created.err # NoError
        THEN Throw(CreateFailed, store)
        ELSE Ok(WithoutPassword(created.val), created.store)

\* Mutant of UsersServiceCreate: the submitted password is stored as it is.
UsersServiceCreatePlain(store, data, salt, t) ==
    IF IndexByEmail(store, data.email) # NoId
    THEN Throw(DuplicateEmail, store)
    ELSE LET created == PrismaUserCreate(store,
                            [ email    |-> data.email,
                              username |-> data.username,
                              password |-> data.password ], t)
         IN  IF created.err # NoError
             THEN Throw(CreateFailed, store)
             ELSE Ok(WithoutPassword(created.val), created.store)

\* UsersService.create
UsersServiceCreate(store, data, salt, t) ==
    IF IndexByEmail(store, data.email) # NoId
    THEN Throw(DuplicateEmail, store)
    ELSE LET hashedPassword == Argon2Hash(data.password, salt)
             created == PrismaUserCreate(store,
                            [ email    |-> data.email,
                              username |-> data.username,
                              password |-> hashedPassword ], t)
         IN  IF created.err # NoError
             THEN Throw(CreateFailed, store)
             ELSE Ok(WithoutPassword(created.val), created.store)

\* UsersService.generateEmailVerificationToken
GenerateEmailVerificationToken(store, email, e, t) ==
    IF IndexByEmail(store, email) = NoId
    THEN Throw(UserNotFound, store)
    ELSE LET key == secret(e)
         IN  IF key.err # NoError
             THEN Throw(key.err, store)
             ELSE Ok(JwtSign([email |-> email], key.val, EmailTTL, t), store)

\* Mutant of VerifyEmailVerificationToken: the signature is not checked.
VerifyEmailVerificationTokenUnsigned(store, token, e, t) ==
    IF token = Null
    THEN Throw(InvalidToken, store) @@ [decoded |-> Null]
    ELSE LET key == secret(e)
         IN  IF key.err # NoError
             THEN Throw(InvalidToken, store) @@ [decoded |-> Null]
             ELSE LET decoded == JwtVerify(token,
                                     IF Len(token) = 3 THEN token[3] ELSE key.val, t)
                  IN  IF ~decoded.ok
                      THEN IF decoded.name = "TokenExpiredError"
                           THEN Throw(TokenExpired, store) @@ [decoded |-> Null]
                           ELSE Throw(InvalidToken, store) @@ [decoded |-> Null]
                      ELSE LET i == IF "email" \in DOMAIN decoded.payload
                                    THEN IndexByEmail(store, decoded.payload.email)
                                    ELSE NoId
                               updated == PrismaUserUpdate(store, i,
                                              [emailIsVerified |-> TRUE], t)
                           IN  IF updated.err # NoError
                               THEN Throw(InvalidToken, store)
                                        @@ [decoded |-> decoded.payload]
                               ELSE Ok(<<"Email verified successfully">>, updated.store)
                                        @@ [decoded |-> decoded.payload]

\* Mutant of VerifyEmailVerificationToken: a token is accepted only while
\* the user's email is not verified yet.
VerifyEmailVerificationTokenOnce(store, token, e, t) ==
    IF token = Null
    THEN Throw(InvalidToken, store) @@ [decoded |-> Null]
    ELSE LET key == secret(e)
         IN  IF key.err # NoError
             THEN Throw(InvalidToken, store) @@ [decoded |-> Null]
             ELSE LET decoded == JwtVerify(token, key.val, t)
                  IN  IF ~decoded.ok
                      THEN IF decoded.name = "TokenExpiredError"
                           THEN Throw(TokenExpired, store) @@ [decoded |-> Null]
                           ELSE Throw(InvalidToken, store) @@ [decoded |-> Null]
                      ELSE LET i == IF "email" \in DOMAIN decoded.payload
                                    THEN IndexByEmail(store, decoded.payload.email)
                                    ELSE NoId
                               updated == PrismaUserUpdate(store, i,
                                              [emailIsVerified |-> TRUE], t)
                           IN  IF updated.err # NoError \/ store[i].emailIsVerified
                               THEN Throw(InvalidToken, store)
                                        @@ [decoded |-> decoded.payload]
                               ELSE Ok(<<"Email verified successfully">>, updated.store)
                                        @@ [decoded |-> decoded.payload]

\* UsersService.verifyEmailVerificationToken; decoded is the payload it logs.
VerifyEmailVerificationToken(store, token, e, t) ==
    IF token = Null
    THEN Throw(InvalidToken, store) @@ [decoded |-> Null]
    ELSE LET key == secret(e)
         IN  IF key.err # NoError
             THEN Throw(InvalidToken, store) @@ [decoded |-> Null]
             ELSE LET decoded == JwtVerify(token, key.val, t)
                  IN  IF ~decoded.ok
                      THEN IF decoded.name = "TokenExpiredError"
                           THEN Throw(TokenExpired, store) @@ [decoded |-> Null]
                           ELSE Throw(InvalidToken, store) @@ [decoded |-> Null]
                      ELSE LET i == IF "email" \in DOMAIN decoded.payload
                                    THEN IndexByEmail(store, decoded.payload.email)
                                    ELSE NoId
                               updated == PrismaUserUpdate(store, i,
                                              [emailIsVerified |-> TRUE], t)
                           IN  IF updated.err # NoError
                               THEN Throw(InvalidToken, store)
                                        @@ [decoded |-> decoded.payload]
                               ELSE Ok(<<"Email verified successfully">>, updated.store)
                                        @@ [decoded |-> decoded.payload]

\* Mutant of GenerateVerificationLink: the token parameter is not set.
GenerateVerificationLinkBare(token) ==
    <<"http://localhost:8080", "/verify-email", "?token=", Null>>

\* UsersService.generateVerificationLink (API_URL unset)
BaseUrl == "http://localhost:8080"
GenerateVerificationLink(token) == <<BaseUrl, "/verify-email", "?token=", token>>

\* UsersService.generateEmailTemplate
GenerateEmailTemplate(content) == <<"<body>", content, "</body>">>

\* UsersService.sendEmail; delivered is the mailer's outcome.
SendEmail(box, email, subject, content, delivered) ==
    IF delivered
    THEN Ok(Null, Append(box, [to |-> email, subject |-> subject, html |-> content]))
    ELSE Throw(DeliveryError, box)

\* UsersService.sendEmailVerificationEmail
SendEmailVerificationEmail(box, email, token, delivered) ==
    LET verificationLink == GenerateVerificationLink(token)
        content == GenerateEmailTemplate(
                       <<"<h1>Welcome to MyLibrary!</h1>", "<a href=",
                         verificationLink, ">Verify Email</a>">>)
    IN  SendEmail(box, email, "Email Verification", content, delivered)

\* The link a mail carries and the token in that link's query string.
LinkOfMail(mail)  == mail.html[2][3]
TokenOfLink(link) == link[4]
TokenOfMail(mail) == TokenOfLink(LinkOfMail(mail))

(***************************************************************************)
(* TokenService and AuthService (session manager)                          *)
(***************************************************************************)
\* Access / refresh pair; the claims carry the user id.
IssueTokenPair(id, key, t) ==
    [ accessToken  |-> JwtSign([id |-> id], key, AccessTTL, t),
      refreshToken |-> JwtSign([id |-> id], key, RefreshTTL, t) ]

\* AuthService.create
AuthServiceCreate(store, data, salt, t) == UsersServiceCreate(store, data, salt, t)

\* requestEmailVerification(email): issue the token, hand it to the mailer.
AuthServiceRequestEmailVerification(store, box, email, e, t, delivered) ==
    LET issued == GenerateEmailVerificationToken(store, email, e, t)
    IN  IF issued.err # NoError
        THEN Throw(issued.err, box)
        ELSE LET sent == SendEmailVerificationEmail(box, email, issued.val, delivered)
             IN  IF sent.err # NoError
                 THEN Throw(sent.err, box)
                 ELSE Ok(Null, sent.store)

\* verifyEmail(token)
AuthServiceVerifyEmail(store, token, e, t) ==
    VerifyEmailVerificationToken(store, token, e, t)

\* login(email, password)
AuthServiceLogin(store, email, password, e, t) ==
    LET i == IndexByEmail(store, email)
    IN  IF i = NoId
        THEN Throw(InvalidCredentials, store)
        ELSE IF ~Argon2Verify(store[i].password, password)
        THEN Throw(InvalidCredentials, store)
        ELSE LET key == secret(e)
             IN  IF key.err # NoError
                 THEN Throw(key.err, store)
                 ELSE LET tokens  == IssueTokenPair(store[i].id, key.val, t)
                          updated == PrismaUserUpdate(store, i,
                                         [refreshToken |-> tokens.refreshToken], t)
                      IN  Ok(tokens, updated.store)

\* refresh(refreshToken): the token's own signature and expiry are all that
\* is checked; the persisted refresh token is not consulted.
AuthServiceRefreshTokens(store, token, e, t) ==
    LET key == secret(e)
    IN  IF key.err # NoError
        THEN Throw(key.err, store)
        ELSE LET decoded == JwtVerify(token, key.val, t)
             IN  IF ~decoded.ok
                 THEN IF decoded.name = "TokenExpiredError"
                      THEN Throw(TokenExpired, store)
                      ELSE Throw(InvalidToken, store)
                 ELSE LET i == IF "id" \in DOMAIN decoded.payload
                               THEN IndexById(store, decoded.payload.id)
                               ELSE NoId
                      IN  IF i = NoId
                          THEN Throw(InvalidToken, store)
                          ELSE LET tokens  == IssueTokenPair(store[i].id, key.val, t)
                                   updated == PrismaUserUpdate(store, i,
                                                  [refreshToken |-> tokens.refreshToken], t)
                               IN  Ok(tokens, updated.store)

\* logout(userId)
AuthServiceLogout(store, id, t) ==
    LET updated == PrismaUserUpdate(store, IndexById(store, id),
                                    [refreshToken |-> Null], t)
    IN  IF updated.err # NoError
        THEN Throw(UserNotFound, store)
        ELSE Ok(Null, updated.store)

(***************************************************************************)
(* Requests                                                                *)
(***************************************************************************)
EmptyJar == [accessToken |-> Null, refreshToken |-> Null]

\* Tokens a client can present: the ones mailed or set as cookies, and the
\* ones it makes up (nothing, garbage, or a token it holds re-signed with a
\* key of its own).
NoMail == [to |-> "", subject |-> "", html |-> Null]
MailedTokens == IF inbox = NoMail THEN {} ELSE {TokenOfMail(inbox)}
Forged(tokens) == { <<t[1], t[2], ForgedSecret>> : t \in tokens \ {Null} }
ForgedEmailTokens   == Forged(MailedTokens)
ForgedRefreshTokens == Forged({cookies.refreshToken})

\* Verification tokens for emails nobody registered, signed with the
\* development secret, which is a constant of the source.
SelfSignedEmailTokens ==
    { JwtSign([email |-> e], "default-secret", EmailTTL, now) :
          e \in { a \in Emails : IndexByEmail(users, a) = NoId } }

VerifyEmailInputs == {Null, Malformed} \cup MailedTokens \cup ForgedEmailTokens
                        \cup {cookies.accessToken} \cup SelfSignedEmailTokens
RefreshInputs == {Null, Malformed} \cup ForgedRefreshTokens
                    \cup {cookies.refreshToken}

Idle       == [op |-> "idle"]
NoResponse == [err |-> NoError, body |-> Null]
Reply(r)   == [err |-> r.err, body |-> r.val]

(***************************************************************************)
(* AuthController: one action per route handler                            *)
(***************************************************************************)
\* POST /register
Create(email, username, password, salt) ==
    LET data == [email |-> email, username |-> username, password |-> password]
        r    == AuthServiceCreate(users, data, salt, now)
    IN  /\ request = Idle
        /\ request' = [op |-> "register", email |-> email,
                       username |-> username, password |-> password]
        /\ users' = r.store
        /\ response' = Reply(r)
        /\ decodedToken' = Null
        /\ UNCHANGED <<env, now, ticks, outbox, inbox, cookies>>

\* Request for a verification mail
RequestEmailVerification(email, delivered) ==
    LET r == AuthServiceRequestEmailVerification(users, outbox, email, env, now, delivered)
    IN  /\ request = Idle
        /\ request' = [op |-> "requestEmailVerification", email |-> email]
        /\ outbox' = r.store
        /\ inbox' = IF r.err = NoError THEN r.store[Len(r.store)] ELSE inbox
        /\ response' = Reply(r)
        /\ decodedToken' = Null
        /\ UNCHANGED <<env, now, ticks, users, cookies>>

\* GET /verify-email?token=
VerifyEmail(token) ==
    LET r == IF token = Null
             THEN Throw(TokenRequired, users) @@ [decoded |-> Null]
             ELSE AuthServiceVerifyEmail(users, token, env, now)
    IN  /\ request = Idle
        /\ request' = [op |-> "verifyEmail", token |-> token]
        /\ users' = r.store
        /\ response' = Reply(r)
        /\ decodedToken' = r.decoded
        /\ UNCHANGED <<env, now, ticks, outbox, inbox, cookies>>

\* Mutant of LoginCookies: both cookies carry the access token.
LoginCookiesSame(tokens) ==
    [accessToken |-> tokens.accessToken, refreshToken |-> tokens.accessToken]

\* Mutant of LoginCookies: the two tokens are swapped.
LoginCookiesSwapped(tokens) ==
    [accessToken |-> tokens.refreshToken, refreshToken |-> tokens.accessToken]

\* The two cookies the login handler sets from the issued pair.
LoginCookies(tokens) ==
    [accessToken |-> tokens.accessToken, refreshToken |-> tokens.refreshToken]

\* POST /login
Login(email, password) ==
    LET r == AuthServiceLogin(users, email, password, env, now)
    IN  /\ request = Idle
        /\ request' = [op |-> "login", email |-> email, password |-> password]
        /\ users' = r.store
        /\ IF r.err = NoError
           THEN /\ cookies' = LoginCookies(r.val)
                /\ response' = [err |-> NoError,
                                body |-> [message |-> "Login successful"]]
           ELSE /\ cookies' = cookies
                /\ response' = Reply(r)
        /\ decodedToken' = Null
        /\ UNCHANGED <<env, now, ticks, outbox, inbox>>

\* POST /refresh-tokens; user is req.user
RefreshTokens(user) ==
    LET r == IF user.id = NoId
             THEN Throw(UserIdRequired, users)
             ELSE AuthServiceRefreshTokens(users, user.refreshToken, env, now)
    IN  /\ request = Idle
        /\ request' = [op |-> "refreshTokens", user |-> user]
        /\ users' = r.store
        /\ response' = Reply(r)
        /\ decodedToken' = Null
        /\ UNCHANGED <<env, now, ticks, outbox, inbox, cookies>>

\* POST /logout; user is req.user
Logout(user) ==
    LET r == IF user.id = NoId
             THEN Throw(UserIdRequired, users)
             ELSE AuthServiceLogout(users, user.id, now)
    IN  /\ request = Idle
        /\ request' = [op |-> "logout", user |-> user]
        /\ users' = r.store
        /\ response' = IF r.err = NoError
                       THEN [err |-> NoError, body |-> [message |-> "Logout successful"]]
                       ELSE Reply(r)
        /\ decodedToken' = Null
        /\ UNCHANGED <<env, now, ticks, outbox, inbox, cookies>>

\* The clock advances between requests.
Tick(d) ==
    /\ request = Idle
    /\ ticks < MaxTicks
    /\ now' = now + d
    /\ ticks' = ticks + 1
    /\ UNCHANGED <<env, users, outbox, inbox, cookies, request, response, decodedToken>>

\* The response goes out and the server waits for the next request.
Respond ==
    /\ request # Idle
    /\ request' = Idle
    /\ response' = NoResponse
    /\ decodedToken' = Null
    /\ outbox' = <<>>
    /\ UNCHANGED <<env, now, ticks, users, inbox, cookies>>

(***************************************************************************)
(* Specification                                                           *)
(***************************************************************************)
Init ==
    /\ env \in Environments
    /\ now = 0
    /\ ticks = 0
    /\ users = <<>>
    /\ outbox = <<>>
    /\ inbox = NoMail
    /\ cookies = EmptyJar
    /\ request = Idle
    /\ response = NoResponse
    /\ decodedToken = Null

Next ==
    \/ \E e \in Emails, u \in Usernames, p \in RegisterPasswords, s \in Salts : Create(e, u, p, s)
    \/ \E e \in Emails, delivered \in BOOLEAN : RequestEmailVerification(e, delivered)
    \/ \E t \in VerifyEmailInputs : VerifyEmail(t)
    \/ \E e \in Emails, p \in Passwords : Login(e, p)
    \/ \E i \in DOMAIN users \cup {NoId}, t \in RefreshInputs :
          RefreshTokens([id |-> i, refreshToken |-> t])
    \/ \E i \in DOMAIN users \cup {NoId} : Logout([id |-> i, refreshToken |-> Null])
    \/ \E d \in TickSteps : Tick(d)
    \/ Respond

Spec == Init /\ [][Next]_vars

\* The same server started in any environment, the ones where no signing
\* secret resolves included.
AllEnvironments ==
    { [JWT_SECRET |-> k, NODE_ENV |-> n] :
          k \in {ConfiguredSecret, Unset}, n \in {"production", "development"} }

InitAnyEnv ==
    /\ env \in AllEnvironments
    /\ now = 0
    /\ ticks = 0
    /\ users = <<>>
    /\ outbox = <<>>
    /\ inbox = NoMail
    /\ cookies = EmptyJar
    /\ request = Idle
    /\ response = NoResponse
    /\ decodedToken = Null

SpecAnyEnv == InitAnyEnv /\ [][Next]_vars

\* Registration and e-mail verification alone, with a clock that also
\* advances by less than the hour a verification token lives.
NextReverify ==
    \/ \E e \in Emails, u \in Usernames, p \in RegisterPasswords, s \in Salts : Create(e, u, p, s)
    \/ \E e \in Emails, delivered \in BOOLEAN : RequestEmailVerification(e, delivered)
    \/ \E t \in VerifyEmailInputs : VerifyEmail(t)
    \/ \E d \in WithinHourSteps \cup {EmailTTL} : Tick(d)
    \/ Respond

SpecReverify == Init /\ [][NextReverify]_vars

(***************************************************************************)
(* Concurrent registration                                                 *)
(*                                                                         *)
(* UsersService.create awaits the store twice: findUnique, then (after the *)
(* hash) create.  Other calls run between the two.  Here request and       *)
(* response hold one entry per caller; each caller makes one call.         *)
(***************************************************************************)
Callers == {1, 2, 3}

\* The call of caller p starts and runs up to the end of findUnique: it
\* throws when a user has the email, and goes on to the hash otherwise.
CreateFindUnique(p, email, username, password, salt) ==
    LET existingUser == IndexByEmail(users, email)
    IN  /\ request[p] = Idle
        /\ request' = [request EXCEPT ![p] =
                          [ op |-> "register", email |-> email,
                            username |-> username, password |-> password,
                            salt |-> salt,
                            at |-> IF existingUser # NoId THEN "done" ELSE "create" ]]
        /\ response' = [response EXCEPT ![p] =
                          IF existingUser # NoId
                          THEN Reply(Throw(DuplicateEmail, users))
                          ELSE NoResponse]
        /\ UNCHANGED <<env, now, ticks, users, outbox, inbox, cookies, decodedToken>>

\* The call of caller p resumes: the hash, prisma.user.create, the result.
CreateInsert(p) ==
    LET hashedPassword == Argon2Hash(request[p].password, request[p].salt)
        created == PrismaUserCreate(users,
                       [ email    |-> request[p].email,
                         username |-> request[p].username,
                         password |-> hashedPassword ], now)
        r == IF created.err # NoError
             THEN Throw(CreateFailed, users)
             ELSE Ok(WithoutPassword(created.val), created.store)
    IN  /\ request[p] # Idle
        /\ request[p].at = "create"
        /\ request' = [request EXCEPT ![p].at = "done"]
        /\ users' = r.store
        /\ response' = [response EXCEPT ![p] = Reply(r)]
        /\ UNCHANGED <<env, now, ticks, outbox, inbox, cookies, decodedToken>>

\* The clock advances while calls are in flight.
TickConcurrent(d) ==
    /\ ticks < MaxTicks
    /\ now' = now + d
    /\ ticks' = ticks + 1
    /\ UNCHANGED <<env, users, outbox, inbox, cookies, request, response, decodedToken>>

InitConcurrent ==
    /\ env \in Environments
    /\ now = 0
    /\ ticks = 0
    /\ users = <<>>
    /\ outbox = <<>>
    /\ inbox = NoMail
    /\ cookies = EmptyJar
    /\ request = [p \in Callers |-> Idle]
    /\ response = [p \in Callers |-> NoResponse]
    /\ decodedToken = Null

NextConcurrent ==
    \/ \E p \in Callers, e \in Emails, u \in Usernames,
          pw \in RegisterPasswords, s \in Salts : CreateFindUnique(p, e, u, pw, s)
    \/ \E p \in Callers : CreateInsert(p)
    \/ \E d \in WithinHourSteps : TickConcurrent(d)

SpecConcurrent == InitConcurrent /\ [][NextConcurrent]_vars

(***************************************************************************)
(* Vocabulary of the properties, stated without the operators above        *)
(***************************************************************************)
\* The step handles a request of kind op (request' is that request).
Handles(op) == request = Idle /\ request'.op = op

\* The key tokens are signed and verified with in this environment.
SigningKey == IF env.JWT_SECRET = Unset THEN "default-secret" ELSE env.JWT_SECRET

\* Well formed, signed with the signing key, and not yet expired.
Verifies(token) ==
    /\ Len(token) = 3
    /\ token[1] = "JWT"
    /\ token[3] = SigningKey
    /\ now < token[2].exp

\* Signed with the signing key but past its expiry.
Expired(token) ==
    /\ Len(token) = 3
    /\ token[1] = "JWT"
    /\ token[3] = SigningKey
    /\ now >= token[2].exp

EmailTaken(e)    == \E i \in DOMAIN users : users[i].email = e
UsernameTaken(u) == \E i \in DOMAIN users : users[i].username = u

Flags(store)         == [i \in DOMAIN store |-> store[i].emailIsVerified]
RefreshFields(store) == [i \in DOMAIN store |-> store[i].refreshToken]

(***************************************************************************)
(* C1                                                                      *)
(***************************************************************************)
\* C1: a register request whose email is the email of a stored user fails
\* with DuplicateEmail and leaves the users collection exactly as it was.
DuplicateEmailRejected ==
    [][ (Handles("register") /\ EmailTaken(request'.email))
            => (response'.err = DuplicateEmail /\ users' = users) ]_vars

DuplicateEmailWitness ==
    /\ request.op = "register"
    /\ response.err = DuplicateEmail
    /\ \E i \in DOMAIN users : users[i].email = request.email

(***************************************************************************)
(* C2                                                                      *)
(***************************************************************************)
\* C2 as stated: a register request whose email has not been registered
\* before succeeds.
RegisterNewEmailSucceeds ==
    [][ (Handles("register") /\ ~EmailTaken(request'.email))
            => response'.err = NoError ]_vars

\* C2 amended: a register request whose email and username are both held by
\* no stored user succeeds and appends exactly one user with that email and
\* username (a new email with a stored username fails and adds nothing);
\* every stored password is an argon2 digest of a password and never a
\* plaintext, the new one being the digest of the submitted password; the
\* returned user has no password field.
RegisterFreshSucceeds ==
    [][ /\ (Handles("register") /\ ~EmailTaken(request'.email)
                                /\ UsernameTaken(request'.username))
            => (response'.err = CreateFailed /\ users' = users)
        /\ (Handles("register") /\ ~EmailTaken(request'.email)
                                /\ ~UsernameTaken(request'.username))
            => /\ response'.err = NoError
               /\ Len(users') = Len(users) + 1
               /\ SubSeq(users', 1, Len(users)) = users
               /\ users'[Len(users')].email = request'.email
               /\ users'[Len(users')].username = request'.username
               /\ users'[Len(users')].password # request'.password
               /\ \E salt \in Salts : users'[Len(users')].password
                        = <<"$argon2id$", salt>> \o request'.password
               /\ "password" \notin DOMAIN response'.body
               /\ \A f \in DOMAIN response'.body :
                        response'.body[f] = users'[Len(users')][f]
        /\ \A i \in DOMAIN users' :
               /\ users'[i].password \notin Passwords
               /\ users'[i].password[1] = "$argon2id$" ]_vars

RegisterFreshWitness ==
    /\ request.op = "register"
    /\ response.err = NoError
    /\ Len(users) = 2
    /\ users[2].email = request.email

(***************************************************************************)
(* C3                                                                      *)
(***************************************************************************)
\* C3: login with the email and password of a registered user hands the
\* caller an access token and a refresh token, both non-empty and different
\* from each other; login with an unknown email and login with a known email
\* and a wrong password get one and the same InvalidCredentials response.
LoginOutcome ==
    [][ Handles("login") =>
          IF \E i \in DOMAIN users :
                /\ users[i].email = request'.email
                /\ users[i].password = <<"$argon2id$", users[i].password[2]>>
                                           \o request'.password
          THEN /\ response'.err = NoError
               /\ cookies'.accessToken # Null
               /\ cookies'.refreshToken # Null
               /\ cookies'.accessToken # cookies'.refreshToken
          ELSE /\ response' = [err |-> InvalidCredentials, body |-> Null]
               /\ cookies' = cookies ]_vars

LoginWitness ==
    /\ request.op = "login"
    /\ response.err = NoError
    /\ cookies.refreshToken # Null
    /\ \E e \in Emails : e # request.email /\ ~EmailTaken(e)

(***************************************************************************)
(* C4                                                                      *)
(***************************************************************************)
\* C4: once logout(userId) has completed, a refresh attempt that presents the
\* refresh token issued to that user before the logout fails, until that user
\* logs in again.  (A user whose persisted refresh token is null while the
\* refresh cookie of that user's login is still held has logged out since.)
RefreshAfterLogoutFails ==
    [][ (/\ Handles("refreshTokens")
         /\ request'.user.id # NoId
         /\ \E i \in DOMAIN users :
               /\ users[i].refreshToken = Null
               /\ cookies.refreshToken # Null
               /\ cookies.refreshToken[2].id = i
               /\ request'.user.refreshToken = cookies.refreshToken)
            => response'.err # NoError ]_vars

(***************************************************************************)
(* C5                                                                      *)
(***************************************************************************)
\* C5: verifyEmail(token) with a token that fails validation (missing,
\* malformed, wrongly signed or expired) fails with InvalidToken, the expired
\* case as its own sub-kind, and changes no email-verified flag; with a valid
\* token, the flag of the user whose email is in the claim is true afterwards
\* and no other user's flag changes.
VerifyEmailOutcome ==
    [][ Handles("verifyEmail") =>
          IF Verifies(request'.token)
          THEN \A i \in DOMAIN users :
                  IF "email" \in DOMAIN request'.token[2]
                        /\ users[i].email = request'.token[2].email
                  THEN users'[i].emailIsVerified
                  ELSE users'[i].emailIsVerified = users[i].emailIsVerified
          ELSE /\ response'.err \in {InvalidToken, TokenExpired}
               /\ (response'.err = TokenExpired) = Expired(request'.token)
               /\ Flags(users') = Flags(users) ]_vars

\* The same, for requests that carry a token at all.
VerifyEmailOutcomeWithToken ==
    [][ (Handles("verifyEmail") /\ request'.token # Null) =>
          IF Verifies(request'.token)
          THEN \A i \in DOMAIN users :
                  IF "email" \in DOMAIN request'.token[2]
                        /\ users[i].email = request'.token[2].email
                  THEN users'[i].emailIsVerified
                  ELSE users'[i].emailIsVerified = users[i].emailIsVerified
          ELSE /\ response'.err \in {InvalidToken, TokenExpired}
               /\ (response'.err = TokenExpired) = Expired(request'.token)
               /\ Flags(users') = Flags(users) ]_vars

(***************************************************************************)
(* C6                                                                      *)
(***************************************************************************)
\* The verifyEmail request in hand presents the token last mailed to a.
PresentsMailed(a) ==
    /\ request.op = "verifyEmail"
    /\ inbox # NoMail
    /\ inbox.to = a
    /\ request.token = inbox.html[2][3][4]

\* C6 as stated: verifying an issued verification token before its ttl has
\* elapsed returns exactly the claims it was issued for (the email alone).
VerifyReturnsExactlyClaims ==
    \A a \in Emails :
        (PresentsMailed(a) /\ now < request.token[2].exp)
            => decodedToken = [email |-> a]

\* C6 amended: a verification token is issued for the email alone, with a ttl
\* of one hour from the time of issue; verifying it before the ttl has
\* elapsed returns the issued claims together with the issue time (iat) and
\* the expiry (exp) the issuer added; verifying it once the ttl has elapsed
\* fails with the expired sub-kind.
VerifyReturnsClaimsAndTimes ==
    /\ (request.op = "requestEmailVerification" /\ response.err = NoError)
          => inbox.html[2][3][4]
                = <<"JWT", [email |-> request.email, iat |-> now,
                            exp |-> now + 2], SigningKey>>
    /\ \A a \in Emails :
          PresentsMailed(a) =>
              LET claims == [email |-> a]
                  issued == request.token[2].iat
              IN  IF now < issued + 2
                  THEN /\ DOMAIN decodedToken = DOMAIN claims \cup {"iat", "exp"}
                       /\ \A c \in DOMAIN claims : decodedToken[c] = claims[c]
                       /\ decodedToken.iat = issued
                       /\ decodedToken.exp = issued + 2
                  ELSE /\ response.err = TokenExpired
                       /\ decodedToken = Null

VerifyRoundTripWitness ==
    /\ \E a \in Emails : PresentsMailed(a)
    /\ response.err = NoError
    /\ decodedToken # Null
    /\ now > 0

(***************************************************************************)
(* C7                                                                      *)
(***************************************************************************)
\* C7: after a successful login the refresh token persisted on that user's
\* record is the refresh token handed to the caller by that login; a failed
\* login leaves every user's persisted refresh token as it was.
LoginPersistsRefreshToken ==
    [][ Handles("login") =>
          IF response'.err = NoError
          THEN \E i \in DOMAIN users' :
                  /\ users'[i].email = request'.email
                  /\ users'[i].refreshToken # Null
                  /\ users'[i].refreshToken = cookies'.refreshToken
          ELSE RefreshFields(users') = RefreshFields(users) ]_vars

LoginPersistsWitness ==
    /\ request.op = "login"
    /\ response.err = NoError
    /\ Len(users) = 2
    /\ users[2].email = request.email
    /\ users[2].refreshToken = cookies.refreshToken
    /\ users[1].refreshToken # Null

(***************************************************************************)
(* C8                                                                      *)
(***************************************************************************)
\* The user with this id has logged out since the last login: the persisted
\* refresh token is null while the refresh cookie of that login is still held.
LoggedOut(id) ==
    /\ id \in DOMAIN users
    /\ users[id].refreshToken = Null
    /\ cookies.refreshToken # Null
    /\ cookies.refreshToken[2].id = id

RefreshOutcome ==
    [][ (Handles("refreshTokens") /\ request'.user.id # NoId) =>
          LET token == request'.user.refreshToken
          IN  IF Verifies(token)
              THEN /\ response'.err = NoError
                   /\ response'.body.accessToken
                        = <<"JWT", [id |-> token[2].id, iat |-> now,
                                    exp |-> now + 48], SigningKey>>
                   /\ response'.body.refreshToken
                        = <<"JWT", [id |-> token[2].id, iat |-> now,
                                    exp |-> now + 336], SigningKey>>
              ELSE /\ response'.err \in {InvalidToken, TokenExpired}
                   /\ response'.body = Null
                   /\ users' = users
                   /\ cookies' = cookies
                   /\ outbox' = <<>> ]_vars

RefreshWitness ==
    /\ request.op = "refreshTokens"
    /\ response.err = NoError
    /\ now > 0
    /\ response.body.refreshToken # request.user.refreshToken

(***************************************************************************)
(* C10                                                                     *)
(***************************************************************************)
\* C10: requestEmailVerification(email) fails with UserNotFound and sends no
\* mail when no stored user has that email; when one has, a verification
\* token for that email is issued and handed to the mailer, and a successful
\* request has sent exactly one mail, to that address, whose link contains
\* the issued token.
RequestEmailVerificationOutcome ==
    [][ Handles("requestEmailVerification") =>
          IF ~EmailTaken(request'.email)
          THEN /\ response'.err = UserNotFound
               /\ outbox' = <<>>
               /\ inbox' = inbox
          ELSE IF response'.err = NoError
          THEN /\ Len(outbox') = 1
               /\ outbox'[1].to = request'.email
               /\ inbox' = outbox'[1]
               /\ LET link == outbox'[1].html[2][3]
                  IN  /\ link[2] = "/verify-email"
                      /\ link[4] = <<"JWT", [email |-> request'.email, iat |-> now,
                                             exp |-> now + 2], SigningKey>>
          ELSE /\ response'.err = DeliveryError
               /\ outbox' = <<>>
               /\ inbox' = inbox ]_vars

RequestEmailVerificationWitness ==
    /\ request.op = "requestEmailVerification"
    /\ response.err = NoError
    /\ Len(outbox) = 1
    /\ outbox[1].to = request.email
    /\ inbox = outbox[1]
    /\ Len(users) = 2

(***************************************************************************)
(* C11                                                                     *)
(***************************************************************************)
\* The step is a token operation: a request that gets as far as the token
\* issuer (a verification mail for a stored user, a verification with a token
\* in hand, a login with a stored user's credentials, a refresh).
TokenOperation ==
    /\ request = Idle
    /\ \/ request'.op = "requestEmailVerification" /\ EmailTaken(request'.email)
       \/ request'.op = "verifyEmail" /\ request'.token # Null
       \/ /\ request'.op = "login"
          /\ \E i \in DOMAIN users :
                /\ users[i].email = request'.email
                /\ users[i].password = <<"$argon2id$", users[i].password[2]>>
                                           \o request'.password
       \/ request'.op = "refreshTokens" /\ request'.user.id # NoId

\* Tokens that exist after the step and did not before it.
NewTokens ==
    ( { outbox'[k].html[2][3][4] : k \in DOMAIN outbox' }
        \cup {cookies'.accessToken, cookies'.refreshToken}
        \cup { users'[i].refreshToken : i \in DOMAIN users' }
        \cup (IF request'.op = "refreshTokens" /\ response'.err = NoError
              THEN {response'.body.accessToken, response'.body.refreshToken}
              ELSE {}) )
      \ ( {Null, cookies.accessToken, cookies.refreshToken}
            \cup { users[i].refreshToken : i \in DOMAIN users } )

\* Tokens the step accepted.
AcceptedTokens ==
    IF request'.op = "verifyEmail" /\ response'.err = NoError
    THEN {request'.token}
    ELSE IF request'.op = "refreshTokens" /\ response'.err = NoError
    THEN {request'.user.refreshToken}
    ELSE {}

\* C11: with a signing secret configured, every token a token operation
\* issues or accepts is signed with that secret; with none configured, in a
\* production environment every token operation fails with the configuration
\* error and issues and accepts no token, and in any other environment the
\* tokens issued and accepted are signed with the fixed development secret.
SecretResolution ==
    [][ TokenOperation =>
          IF env.JWT_SECRET # ""
          THEN \A t \in NewTokens \cup AcceptedTokens : t[3] = env.JWT_SECRET
          ELSE IF env.NODE_ENV = "production"
          THEN /\ response'.err = ConfigurationError
               /\ NewTokens = {}
               /\ AcceptedTokens = {}
          ELSE \A t \in NewTokens \cup AcceptedTokens : t[3] = "default-secret"
      ]_vars

\* The same, except that in a production environment without a secret a
\* verification of an email token fails as an invalid token.
SecretResolutionVerifyEmailInvalid ==
    [][ TokenOperation =>
          IF env.JWT_SECRET # ""
          THEN \A t \in NewTokens \cup AcceptedTokens : t[3] = env.JWT_SECRET
          ELSE IF env.NODE_ENV = "production"
          THEN /\ response'.err = IF request'.op = "verifyEmail"
                                  THEN InvalidToken
                                  ELSE ConfigurationError
               /\ NewTokens = {}
               /\ AcceptedTokens = {}
          ELSE \A t \in NewTokens \cup AcceptedTokens : t[3] = "default-secret"
      ]_vars

(***************************************************************************)
(* C12                                                                     *)
(***************************************************************************)
\* The step verifies the email of stored user i with a token that is valid.
VerifiesEmailOf(i) ==
    /\ Handles("verifyEmail")
    /\ Verifies(request'.token)
    /\ "email" \in DOMAIN request'.token[2]
    /\ i \in DOMAIN users
    /\ users[i].email = request'.token[2].email

\* C12 as stated: verifyEmail with a still-valid token for a user whose
\* email-verified flag an earlier call has set (the second call) succeeds and
\* leaves the store as the first call left it.
ReverifySameStore ==
    [][ \A i \in DOMAIN users :
          (VerifiesEmailOf(i) /\ users[i].emailIsVerified) =>
              /\ response'.err = NoError
              /\ users' = users ]_vars

\* C12 amended: verifyEmail with a still-valid token succeeds on the first
\* call and on every later one; after each call the user's email-verified
\* flag is true and that user's update timestamp is the time of the call,
\* and nothing else in the store differs, so the store after the second call
\* equals the store after the first except for that update timestamp.
ReverifySameStoreButUpdatedAt ==
    [][ \A i \in DOMAIN users :
          VerifiesEmailOf(i) =>
              /\ response' = [err |-> NoError,
                              body |-> <<"Email verified successfully">>]
              /\ DOMAIN users' = DOMAIN users
              /\ users'[i].emailIsVerified
              /\ users'[i].updatedAt = now
              /\ \A f \in DOMAIN users[i] \ {"emailIsVerified", "updatedAt"} :
                    users'[i][f] = users[i][f]
              /\ \A j \in DOMAIN users \ {i} : users'[j] = users[j]
              /\ users[i].emailIsVerified =>
                    \A f \in DOMAIN users[i] \ {"updatedAt"} :
                        users'[i][f] = users[i][f] ]_vars

\* Between two calls: the mailed token has been accepted at the time it was
\* issued, time has passed since, and the token is still valid.
ReverifyWitness ==
    /\ request = Idle
    /\ inbox # NoMail
    /\ Verifies(inbox.html[2][3][4])
    /\ \E i \in DOMAIN users :
          /\ users[i].email = inbox.to
          /\ users[i].emailIsVerified
          /\ users[i].updatedAt = inbox.html[2][3][4][2].iat
          /\ now > users[i].updatedAt

(***************************************************************************)
(* C13                                                                     *)
(***************************************************************************)
\* The register call of caller p has returned or thrown.
Returned(p) == request[p] # Idle /\ request[p].at = "done"

\* C13: under every interleaving of concurrent register calls the store
\* holds at most one user per email and at most one per username; of the
\* calls that use the same email at most one succeeds, every other one that
\* has finished got an error, and the store holds exactly one user for each
\* call that succeeded.
ConcurrentRegisterUnique ==
    /\ \A i, j \in DOMAIN users :
          i # j => /\ users[i].email # users[j].email
                   /\ users[i].username # users[j].username
    /\ \A p, q \in Callers :
          (p # q /\ Returned(p) /\ Returned(q)
                 /\ request[p].email = request[q].email)
              => (response[p].err # NoError \/ response[q].err # NoError)
    /\ \A p \in Callers :
          Returned(p) =>
              IF response[p].err = NoError
              THEN \E i \in DOMAIN users :
                      /\ users[i].email = request[p].email
                      /\ users[i].username = request[p].username
              ELSE response[p].err \in {DuplicateEmail, CreateFailed}
    /\ Len(users) = Cardinality({ p \in Callers :
                                     Returned(p) /\ response[p].err = NoError })

\* Two calls with the same email both passed the find-by-email check; one
\* created the user and the other was refused by the store.
ConcurrentRegisterWitness ==
    \E p, q \in Callers :
        /\ p # q
        /\ Returned(p) /\ Returned(q)
        /\ request[p].email = request[q].email
        /\ response[p].err = NoError
        /\ response[q].err = CreateFailed
        /\ request[q].username # request[p].username
        /\ Len(users) = 1

(***************************************************************************)
(* C14                                                                     *)
(***************************************************************************)
\* C14: a user is created by register alone and with the email-verified flag
\* false; a flag changes only from false to true and only in a verifyEmail
\* call that succeeds with a validly signed, unexpired token carrying that
\* user's email, so register, login, refresh, logout and
\* requestEmailVerification never change a flag; verifyEmail with a valid
\* token whose email no stored user has fails and creates no user.
EmailVerifiedOnlyByVerifyEmail ==
    [][ /\ Len(users') >= Len(users)
        /\ \A i \in DOMAIN users' \ DOMAIN users :
              /\ Handles("register")
              /\ ~users'[i].emailIsVerified
        /\ \A i \in DOMAIN users :
              users'[i].emailIsVerified # users[i].emailIsVerified =>
                  /\ users'[i].emailIsVerified
                  /\ Handles("verifyEmail")
                  /\ Verifies(request'.token)
                  /\ "email" \in DOMAIN request'.token[2]
                  /\ request'.token[2].email = users[i].email
                  /\ response'.err = NoError
        /\ (/\ Handles("verifyEmail")
            /\ Verifies(request'.token)
            /\ "email" \in DOMAIN request'.token[2]
            /\ ~EmailTaken(request'.token[2].email))
              => /\ response'.err = InvalidToken
                 /\ users' = users ]_vars

\* A valid token for an email nobody registered has been refused, while
\* another user is verified.
EmailVerifiedWitness ==
    /\ request.op = "verifyEmail"
    /\ Verifies(request.token)
    /\ "email" \in DOMAIN request.token[2]
    /\ ~EmailTaken(request.token[2].email)
    /\ response.err = InvalidToken
    /\ Len(users) = 1
    /\ users[1].emailIsVerified
    /\ users[1].refreshToken # Null

====
